---- MODULE Spec2Model ----
(***************************************************************************)
(* Bus tracker prototype (backend/data/app.py): the vehicle simulator, the *)
(* ETA engine, the trip planner and the asyncio event loop they run on.    *)
(*                                                                         *)
(* Numbers.  The program computes in floating-point metres.  The model is  *)
(* fixed-point: every distance, progress and coordinate is an integer      *)
(* count of 1/Scale metre, with Scale = 18, so that a speed of k km/h is   *)
(* exactly 5k units per second (k * 1000 / 3600 m/s).  Coordinates are     *)
(* grid positions in the same unit and haversine_m is the grid distance    *)
(* |dlat| + |dlon| (exactly the great-circle distance along a meridian).   *)
(* None is -1, float("inf") is Inf, an id that is absent is "".            *)
(***************************************************************************)
EXTENDS Integers, Sequences, FiniteSets, TLC

VARIABLES
    ROUTES,          \* the loaded dataset: the sequence of routes (line 34)
    BUSES,           \* bus id -> BusState (line 79)
    simPc,           \* position of the simulator_loop coroutine
    simIdx,          \* position of `for bus in BUSES.values()` (1-based)
    now,             \* time.time()
    cancelRequested, \* task.cancel() was called on the simulator task
    shutdownPc,      \* position of on_shutdown
    resp,            \* the response in flight to the client, or NoResp
    tickStart        \* history: BUSES when the running/last tick began

vars == <<ROUTES, BUSES, simPc, simIdx, now, cancelRequested, shutdownPc,
          resp, tickStart>>

(***************************************************************************)
(* Bounds and representation constants                                     *)
(***************************************************************************)
MaxTime == 3

Scale == 18

None == -1

Inf == 99999999

Abs(x) == IF x < 0 THEN -x ELSE x

Min(x, y) == IF x <= y THEN x ELSE y

(***************************************************************************)
(* Geometry                                                                *)
(***************************************************************************)
haversine_m(lat1, lon1, lat2, lon2) == Abs(lat2 - lat1) + Abs(lon2 - lon1)

(***************************************************************************)
(* Datasets (routes.json): each route has an id and an ordered stop list   *)
(***************************************************************************)
Stop(id, lat, lon) == [id |-> id, lat |-> lat, lon |-> lon]

Route(id, stops) == [id |-> id, stops |-> stops]

\* A triangle with an exact-hit segment (220 = 2 ticks at 22 km/h) and a
\* segment shorter than one tick's move; a route whose two stops coincide
\* (zero-length segments); a one-stop route; an empty route.
DatasetA ==
    << Route("R1", << Stop("A", 0, 0), Stop("B", 100, 120), Stop("C", 200, 120) >>),
       Route("R2", << Stop("D", 50, 50), Stop("E", 50, 50) >>),
       Route("R3", << Stop("F", 10, 10) >>),
       Route("R4", << >>) >>

\* A two-stop route and a four-stop route that share stops G and H; the
\* four-stop route has a zero-length segment G -> L.
DatasetB ==
    << Route("R5", << Stop("G", 0, 0), Stop("H", 0, 330) >>),
       Route("R6", << Stop("H", 0, 330), Stop("K", 90, 330),
                      Stop("G", 0, 0), Stop("L", 0, 0) >>) >>

Datasets == {DatasetA, DatasetB}

\* the speed every bus is built with (line 82), and a faster one
SpeedsKmph == {22, 36}

RouteIds == {ROUTES[k].id : k \in 1..Len(ROUTES)}

ROUTES_BY_ID(rid) == ROUTES[CHOOSE k \in 1..Len(ROUTES) : ROUTES[k].id = rid]

\* Python's 0-based stops[i]
StopAt(stops, i) == stops[i + 1]

StopIdsOf(stops) == {stops[k].id : k \in 1..Len(stops)}

\* STOPS_BY_ID in insertion order of first appearance (a dict keeps the
\* position of a key's first insertion; a later duplicate overwrites the value).
AllStopOccurrences ==
    LET RECURSIVE Cat(_)
        Cat(k) == IF k > Len(ROUTES) THEN << >> ELSE ROUTES[k].stops \o Cat(k + 1)
    IN Cat(1)

STOP_ID_ORDER ==
    LET occ == AllStopOccurrences
        RECURSIVE Keys(_, _)
        Keys(k, acc) ==
            IF k > Len(occ) THEN acc
            ELSE IF \E m \in 1..Len(acc) : acc[m] = occ[k].id
                 THEN Keys(k + 1, acc)
                 ELSE Keys(k + 1, Append(acc, occ[k].id))
    IN Keys(1, << >>)

STOPS_BY_ID(sid) ==
    LET occ == AllStopOccurrences
        last == CHOOSE k \in 1..Len(occ) :
                    /\ occ[k].id = sid
                    /\ \A m \in (k + 1)..Len(occ) : occ[m].id # sid
    IN occ[last]

StopIds == {AllStopOccurrences[k].id : k \in 1..Len(AllStopOccurrences)}

(***************************************************************************)
(* BusState                                                                *)
(***************************************************************************)
BusIdOf(rid) == << rid, "-bus-1" >>

BusState(route, speed_kmph, ts) ==
    [ route_id      |-> route.id,
      speed_kmph    |-> speed_kmph,
      segment_index |-> 0,
      progress_m    |-> 0,
      lat           |-> IF Len(route.stops) >= 1 THEN route.stops[1].lat ELSE None,
      lon           |-> IF Len(route.stops) >= 1 THEN route.stops[1].lon ELSE None,
      last_update_ts |-> ts ]

BusIds == {BusIdOf(rid) : rid \in RouteIds}

\* BUSES.values() iterates in insertion order, which is the routes' order
BusOrder == [k \in 1..Len(ROUTES) |-> BusIdOf(ROUTES[k].id)]

NoBus == << "", "" >>

\* what a handler read of the bus it answers about
Snapshot(bus_id, bus) ==
    [ bus_id |-> bus_id, lat |-> bus.lat, lon |-> bus.lon,
      segment_index |-> bus.segment_index ]

NoSnapshot ==
    [bus_id |-> NoBus, lat |-> None, lon |-> None, segment_index |-> None]

NoResp ==
    [op |-> "none", status |-> 0, detail |-> "", req |-> << >>, used |-> NoSnapshot]

Init ==
    /\ ROUTES \in Datasets
    /\ \E sp \in SpeedsKmph :
         BUSES = [b \in BusIds |->
                    LET k == CHOOSE k \in 1..Len(ROUTES) : BusIdOf(ROUTES[k].id) = b
                    IN BusState(ROUTES[k], sp, 0)]
    /\ simPc = "sleep"
    /\ simIdx = 1
    /\ now = 0
    /\ cancelRequested = FALSE
    /\ shutdownPc = "idle"
    /\ resp = NoResp
    /\ tickStart = BUSES

(***************************************************************************)
(* simulator_loop: one iteration of `while True` is one tick.  The loop    *)
(* body holds no await, so the coroutine keeps the event loop from the     *)
(* moment it wakes (line 88) until `await asyncio.sleep` (line 123).       *)
(***************************************************************************)
StopsOf(bus) == ROUTES_BY_ID(bus.route_id).stops

\* lines 96-100: j, and the length of the segment stops[i] -> stops[j]
NextIndex(i, n) == (i + 1) % n

SegLen(stops, i) ==
    LET a == StopAt(stops, i)
        b == StopAt(stops, NextIndex(i, Len(stops)))
    IN haversine_m(a.lat, a.lon, b.lat, b.lon)

\* line 102: (speed_kmph * 1000.0) / 3600.0, in units per second
speed_mps(speed_kmph) == (speed_kmph * 1000 * Scale) \div 3600

\* lines 103-104: dt = 1.0; move = speed_mps * dt
dt == 1

Move(bus) == speed_mps(bus.speed_kmph) * dt

\* mutant: line 108 without the min(..., 1.0) clamp
InterpUnclamped(x, y, progress, seg_len) ==
    IF seg_len > 0
    THEN x + ((y - x) * progress) \div seg_len
    ELSE y

\* lines 107-114: a + (b - a) * t with t = min(progress / seg_len, 1.0),
\* t = 1.0 when seg_len = 0
Interp(x, y, progress, seg_len) ==
    IF seg_len > 0 /\ progress < seg_len
    THEN x + ((y - x) * progress) \div seg_len
    ELSE y

\* mutant: the guard of line 92 written `< 1`
DegenerateOffByOne(stops) == Len(stops) < 1

\* line 92: len(stops) < 2
Degenerate(stops) == Len(stops) < 2

\* line 106
Advanced(bus) == [bus EXCEPT !.progress_m = @ + Move(bus)]

\* line 113
WithLat(bus) ==
    LET stops == StopsOf(bus)
        i == bus.segment_index
        a == StopAt(stops, i)
        b == StopAt(stops, NextIndex(i, Len(stops)))
    IN [bus EXCEPT !.lat = Interp(a.lat, b.lat, bus.progress_m, SegLen(stops, i))]

\* mutant: line 114 interpolating with the latitudes
WithLonFromLat(bus) ==
    LET stops == StopsOf(bus)
        i == bus.segment_index
        a == StopAt(stops, i)
        b == StopAt(stops, NextIndex(i, Len(stops)))
    IN [bus EXCEPT !.lon = Interp(a.lat, b.lat, bus.progress_m, SegLen(stops, i))]

\* line 114
WithLon(bus) ==
    LET stops == StopsOf(bus)
        i == bus.segment_index
        a == StopAt(stops, i)
        b == StopAt(stops, NextIndex(i, Len(stops)))
    IN [bus EXCEPT !.lon = Interp(a.lon, b.lon, bus.progress_m, SegLen(stops, i))]

\* line 115
WithTs(bus, t) == [bus EXCEPT !.last_update_ts = t]

\* mutant: line 119 missing, progress_m is not reset
CrossedKeepsProgress(bus) ==
    LET stops == StopsOf(bus)
        i == bus.segment_index
    IN IF bus.progress_m >= SegLen(stops, i)
       THEN [bus EXCEPT !.segment_index = NextIndex(i, Len(stops))]
       ELSE bus

\* mutant: line 117 written `>`
CrossedStrict(bus) ==
    LET stops == StopsOf(bus)
        i == bus.segment_index
    IN IF bus.progress_m > SegLen(stops, i)
       THEN [bus EXCEPT !.segment_index = NextIndex(i, Len(stops)),
                        !.progress_m = 0]
       ELSE bus

\* mutant: the route is not circular, the vehicle stays on its last segment
CrossedStopsAtLast(bus) ==
    LET stops == StopsOf(bus)
        i == bus.segment_index
    IN IF bus.progress_m < SegLen(stops, i) THEN bus
       ELSE IF i + 1 < Len(stops)
       THEN [bus EXCEPT !.segment_index = i + 1, !.progress_m = 0]
       ELSE [bus EXCEPT !.progress_m = SegLen(stops, i)]

\* mutant: line 119 carrying the overshoot into the next segment
CrossedCarry(bus) ==
    LET stops == StopsOf(bus)
        i == bus.segment_index
    IN IF bus.progress_m >= SegLen(stops, i)
       THEN [bus EXCEPT !.segment_index = NextIndex(i, Len(stops)),
                        !.progress_m = @ - SegLen(stops, i)]
       ELSE bus

\* lines 117-119
Crossed(bus) ==
    LET stops == StopsOf(bus)
        i == bus.segment_index
    IN IF bus.progress_m >= SegLen(stops, i)
       THEN [bus EXCEPT !.segment_index = NextIndex(i, Len(stops)),
                        !.progress_m = 0]
       ELSE bus

\* The event loop is free: no coroutine is between two of its awaits.
LoopFree == simPc \in {"sleep", "done"}

cur == BusOrder[simIdx]

\* asyncio.sleep returns (or the task runs for the first time): line 88
SimWake ==
    /\ simPc = "sleep"
    /\ ~cancelRequested
    /\ now' = Min(now + 1, MaxTime)
    /\ simPc' = "for"
    /\ simIdx' = 1
    /\ tickStart' = BUSES
    /\ resp' = NoResp          \* a response is delivered within the sleep
    /\ UNCHANGED <<ROUTES, BUSES, cancelRequested, shutdownPc>>

\* lines 89-93: the next bus is on a route with fewer than 2 stops
SimSkip ==
    /\ simPc = "for"
    /\ simIdx <= Len(BusOrder)
    /\ Degenerate(StopsOf(BUSES[cur]))
    /\ simIdx' = simIdx + 1
    /\ UNCHANGED <<ROUTES, BUSES, simPc, now, cancelRequested, shutdownPc,
                   resp, tickStart>>

\* lines 89-106: the next bus is on a route with 2 stops or more
SimAdvance ==
    /\ simPc = "for"
    /\ simIdx <= Len(BusOrder)
    /\ ~Degenerate(StopsOf(BUSES[cur]))
    /\ BUSES' = [BUSES EXCEPT ![cur] = Advanced(@)]
    /\ simPc' = "lat"
    /\ UNCHANGED <<ROUTES, simIdx, now, cancelRequested, shutdownPc, resp,
                   tickStart>>

SimLat ==
    /\ simPc = "lat"
    /\ BUSES' = [BUSES EXCEPT ![cur] = WithLat(@)]
    /\ simPc' = "lon"
    /\ UNCHANGED <<ROUTES, simIdx, now, cancelRequested, shutdownPc, resp,
                   tickStart>>

SimLon ==
    /\ simPc = "lon"
    /\ BUSES' = [BUSES EXCEPT ![cur] = WithLon(@)]
    /\ simPc' = "ts"
    /\ UNCHANGED <<ROUTES, simIdx, now, cancelRequested, shutdownPc, resp,
                   tickStart>>

SimTs ==
    /\ simPc = "ts"
    /\ BUSES' = [BUSES EXCEPT ![cur] = WithTs(@, now)]
    /\ simPc' = "cross"
    /\ UNCHANGED <<ROUTES, simIdx, now, cancelRequested, shutdownPc, resp,
                   tickStart>>

SimCross ==
    /\ simPc = "cross"
    /\ BUSES' = [BUSES EXCEPT ![cur] = Crossed(@)]
    /\ simPc' = "for"
    /\ simIdx' = simIdx + 1
    /\ UNCHANGED <<ROUTES, now, cancelRequested, shutdownPc, resp, tickStart>>

\* lines 122-123: the for loop is exhausted; await asyncio.sleep(...)
SimSleep ==
    /\ simPc = "for"
    /\ simIdx > Len(BusOrder)
    /\ simPc' = "sleep"
    /\ UNCHANGED <<ROUTES, BUSES, simIdx, now, cancelRequested, shutdownPc,
                   resp, tickStart>>

SimStep ==
    \/ SimWake \/ SimSkip \/ SimAdvance \/ SimLat \/ SimLon \/ SimTs
    \/ SimCross \/ SimSleep

(***************************************************************************)
(* on_shutdown (lines 224-230)                                             *)
(***************************************************************************)
\* line 228: task.cancel(), then `await task` gives up the event loop
OnShutdownCancel ==
    /\ shutdownPc = "idle"
    /\ LoopFree
    /\ cancelRequested' = TRUE
    /\ shutdownPc' = "awaiting"
    /\ UNCHANGED <<ROUTES, BUSES, simPc, simIdx, now, resp, tickStart>>

\* CancelledError is raised inside the task at its await (line 123)
SimCancelled ==
    /\ simPc = "sleep"
    /\ cancelRequested
    /\ simPc' = "done"
    /\ UNCHANGED <<ROUTES, BUSES, simIdx, now, cancelRequested, shutdownPc,
                   resp, tickStart>>

\* mutant: on_shutdown without line 230, returning right after task.cancel()
OnShutdownDoneNoAwait ==
    /\ shutdownPc = "awaiting"
    /\ shutdownPc' = "complete"
    /\ UNCHANGED <<ROUTES, BUSES, simPc, simIdx, now, cancelRequested, resp,
                   tickStart>>

\* line 230: `await task` returns once the task has finished
OnShutdownDone ==
    /\ shutdownPc = "awaiting"
    /\ simPc = "done"
    /\ shutdownPc' = "complete"
    /\ UNCHANGED <<ROUTES, BUSES, simPc, simIdx, now, cancelRequested, resp,
                   tickStart>>

(***************************************************************************)
(* ETA calculation (lines 128-202)                                         *)
(***************************************************************************)
OverflowError == -2

\* next((idx for idx, s in enumerate(stops) if s["id"] == stop_id), None)
IndexOf(stops, stop_id) ==
    IF \E k \in 1..Len(stops) : stops[k].id = stop_id
    THEN (CHOOSE k \in 1..Len(stops) :
              /\ stops[k].id = stop_id
              /\ \A m \in 1..(k - 1) : stops[m].id # stop_id) - 1
    ELSE None

\* lines 149-156: the forward walk from idx to to_idx, adding full segments
RECURSIVE WalkFrom(_, _, _, _)
WalkFrom(stops, idx, to_idx, total) ==
    IF idx = to_idx THEN total
    ELSE WalkFrom(stops, NextIndex(idx, Len(stops)), to_idx,
                  total + SegLen(stops, idx))

\* lines 151-155: the number of full segments the forward walk adds
RECURSIVE WalkSegments(_, _, _, _)
WalkSegments(stops, idx, to_idx, count) ==
    IF idx = to_idx THEN count
    ELSE WalkSegments(stops, NextIndex(idx, Len(stops)), to_idx, count + 1)

\* mutant: a target that is the current segment's start stop is taken to be
\* reached already
route_distance_remaining_zero_at_i(route_id, from_lat, from_lon, current_segment_index, to_stop_id) ==
    LET stops == ROUTES_BY_ID(route_id).stops
        n == Len(stops)
        to_idx == IndexOf(stops, to_stop_id)
    IN IF to_idx = None THEN Inf
       ELSE IF to_idx = current_segment_index THEN 0
       ELSE LET j == NextIndex(current_segment_index, n)
                seg_remaining ==
                    IF n >= 2
                    THEN haversine_m(from_lat, from_lon,
                                     StopAt(stops, j).lat, StopAt(stops, j).lon)
                    ELSE 0
            IN WalkFrom(stops, j, to_idx, seg_remaining)

\* mutant: the walk starts at the current segment's start stop i, not at j
route_distance_remaining_from_i(route_id, from_lat, from_lon, current_segment_index, to_stop_id) ==
    LET stops == ROUTES_BY_ID(route_id).stops
        n == Len(stops)
        to_idx == IndexOf(stops, to_stop_id)
    IN IF to_idx = None THEN Inf
       ELSE LET j == NextIndex(current_segment_index, n)
                seg_remaining ==
                    IF n >= 2
                    THEN haversine_m(from_lat, from_lon,
                                     StopAt(stops, j).lat, StopAt(stops, j).lon)
                    ELSE 0
            IN WalkFrom(stops, current_segment_index, to_idx, seg_remaining)

route_distance_remaining_m(route_id, from_lat, from_lon, current_segment_index, to_stop_id) ==
    LET stops == ROUTES_BY_ID(route_id).stops
        n == Len(stops)
        to_idx == IndexOf(stops, to_stop_id)
    IN IF to_idx = None THEN Inf
       ELSE LET j == NextIndex(current_segment_index, n)
                seg_remaining ==
                    IF n >= 2
                    THEN haversine_m(from_lat, from_lon,
                                     StopAt(stops, j).lat, StopAt(stops, j).lon)
                    ELSE 0
            IN WalkFrom(stops, j, to_idx, seg_remaining)

\* int(x / y) of floats with y > 0: the quotient truncated toward zero
TruncDiv(x, y) == IF x >= 0 THEN x \div y ELSE -((-x) \div y)

\* int(x) of a float: OverflowError on infinity, else truncation
IntOf(x, unit) == IF x >= Inf THEN OverflowError ELSE TruncDiv(x, unit)

\* mutant: line 163 as int(round(distance_m / speed_mps))
eta_seconds_rounds(distance_m, speed_kmph) ==
    IF speed_kmph <= 0 THEN None
    ELSE IF distance_m >= Inf THEN OverflowError
    ELSE TruncDiv(2 * distance_m + speed_mps(speed_kmph),
                  2 * speed_mps(speed_kmph))

eta_seconds(distance_m, speed_kmph) ==
    IF speed_kmph <= 0 THEN None
    ELSE IF distance_m >= Inf THEN OverflowError
    ELSE TruncDiv(distance_m, speed_mps(speed_kmph))

\* mutant: line 171 as `d <= best_d`, the last of the nearest stops wins
nearest_stop_last(lat, lon) ==
    LET order == STOP_ID_ORDER
        RECURSIVE Scan(_, _, _)
        Scan(k, best_id, best_d) ==
            IF k > Len(order) THEN [id |-> best_id, d |-> best_d]
            ELSE LET s == STOPS_BY_ID(order[k])
                     d == haversine_m(lat, lon, s.lat, s.lon)
                 IN IF d <= best_d THEN Scan(k + 1, order[k], d)
                    ELSE Scan(k + 1, best_id, best_d)
    IN Scan(1, "", Inf)

\* lines 166-173: linear scan of STOPS_BY_ID.items(), strict `<`
nearest_stop(lat, lon) ==
    LET order == STOP_ID_ORDER
        RECURSIVE Scan(_, _, _)
        Scan(k, best_id, best_d) ==
            IF k > Len(order) THEN [id |-> best_id, d |-> best_d]
            ELSE LET s == STOPS_BY_ID(order[k])
                     d == haversine_m(lat, lon, s.lat, s.lon)
                 IN IF d < best_d THEN Scan(k + 1, order[k], d)
                    ELSE Scan(k + 1, best_id, best_d)
    IN Scan(1, "", Inf)

\* lines 187-194: the path walk, returning the distance and the stop ids
RECURSIVE PathWalk(_, _, _, _, _)
PathWalk(stops, i, idx_to, total, path) ==
    IF i = idx_to THEN [total |-> total, path |-> path]
    ELSE LET nxt == NextIndex(i, Len(stops))
         IN PathWalk(stops, nxt, idx_to, total + SegLen(stops, i),
                     Append(path, StopAt(stops, nxt).id))

\* mutant: line 192 appending a["id"], the stop the segment starts at
RECURSIVE PathWalkAppendsA(_, _, _, _, _)
PathWalkAppendsA(stops, i, idx_to, total, path) ==
    IF i = idx_to THEN [total |-> total, path |-> path]
    ELSE PathWalkAppendsA(stops, NextIndex(i, Len(stops)), idx_to,
                          total + SegLen(stops, i),
                          Append(path, StopAt(stops, i).id))

route_path_appends_a(route_id, from_stop_id, to_stop_id) ==
    LET stops == ROUTES_BY_ID(route_id).stops
        n == Len(stops)
        idx_from == IndexOf(stops, from_stop_id)
        idx_to == IndexOf(stops, to_stop_id)
    IN IF idx_from = None \/ idx_to = None \/ n < 2
       THEN [total |-> Inf, path |-> << >>]
       ELSE LET w == PathWalkAppendsA(stops, idx_from, idx_to, 0, << >>)
            IN [total |-> w.total, path |-> << from_stop_id >> \o w.path]

route_path_distance_and_stops(route_id, from_stop_id, to_stop_id) ==
    LET stops == ROUTES_BY_ID(route_id).stops
        n == Len(stops)
        idx_from == IndexOf(stops, from_stop_id)
        idx_to == IndexOf(stops, to_stop_id)
    IN IF idx_from = None \/ idx_to = None \/ n < 2
       THEN [total |-> Inf, path |-> << >>]
       ELSE LET w == PathWalk(stops, idx_from, idx_to, 0, << >>)
            IN [total |-> w.total, path |-> << from_stop_id >> \o w.path]

\* mutant: line 201 as int(distance_m / 1000.0) + 1 kilometres
simple_fare_floor_plus_one(distance_m) ==
    IF distance_m >= Inf THEN OverflowError
    ELSE 10 + 2 * (TruncDiv(distance_m, 1000 * Scale) + 1)

\* lines 197-202: 10 + 2 * ceil(distance_m / 1000.0)
simple_fare(distance_m) ==
    IF distance_m >= Inf THEN OverflowError
    ELSE 10 + 2 * (-((-distance_m) \div (1000 * Scale)))

(***************************************************************************)
(* Query handlers.  None of them awaits between reading the bus and        *)
(* building its response, so each runs as one step of the event loop, and  *)
(* only when no other coroutine holds the loop.                            *)
(***************************************************************************)
\* HTTPException(status_code, detail), or an exception the handler lets
\* escape (status 500); `used` is the bus the handler had read by then
Failure(op, req, status, detail, used) ==
    [op |-> op, status |-> status, detail |-> detail, req |-> req, used |-> used]

\* BusState.to_dict (lines 66-75)
to_dict(bus_id, bus) ==
    [ bus_id |-> bus_id, route_id |-> bus.route_id, lat |-> bus.lat,
      lon |-> bus.lon, speed_kmph |-> bus.speed_kmph,
      segment_index |-> bus.segment_index, last_update |-> bus.last_update_ts ]

\* get_bus_location (lines 238-245); NoBus is a request without bus_id
get_bus_location(bus_id) ==
    IF bus_id = NoBus
    THEN [ op |-> "getBusLocation", status |-> 200, detail |-> "",
           req |-> << bus_id >>, used |-> NoSnapshot,
           buses |-> [k \in 1..Len(BusOrder) |->
                         to_dict(BusOrder[k], BUSES[BusOrder[k]])] ]
    ELSE IF bus_id \notin DOMAIN BUSES
    THEN Failure("getBusLocation", << bus_id >>, 404, "Bus not found", NoSnapshot)
    ELSE [ op |-> "getBusLocation", status |-> 200, detail |-> "",
           req |-> << bus_id >>,
           used |-> Snapshot(bus_id, BUSES[bus_id]),
           bus |-> to_dict(bus_id, BUSES[bus_id]) ]

\* get_eta (lines 248-270)
get_eta(bus_id, stop_id) ==
    IF bus_id \notin DOMAIN BUSES
    THEN Failure("getETA", << bus_id, stop_id >>, 404, "Bus not found", NoSnapshot)
    ELSE IF stop_id \notin StopIds
    THEN Failure("getETA", << bus_id, stop_id >>, 404, "Stop not found", NoSnapshot)
    ELSE LET bus == BUSES[bus_id]
             dist_m == route_distance_remaining_m(bus.route_id, bus.lat, bus.lon,
                                                  bus.segment_index, stop_id)
             eta_s == eta_seconds(dist_m, bus.speed_kmph)
         IN IF eta_s = OverflowError \/ IntOf(dist_m, Scale) = OverflowError
            THEN Failure("getETA", << bus_id, stop_id >>, 500, "OverflowError",
                         Snapshot(bus_id, bus))
            ELSE [ op |-> "getETA", status |-> 200, detail |-> "",
                   req |-> << bus_id, stop_id >>,
                   used |-> Snapshot(bus_id, bus),
                   bus_id |-> bus_id, stop_id |-> stop_id,
                   dist_m |-> dist_m,
                   distance_m |-> IntOf(dist_m, Scale),
                   eta_seconds |-> eta_s ]

\* lines 326-330: the routes, in ROUTES_BY_ID order, that hold both stops
candidate_routes(start_id, dest_id) ==
    SelectSeq([k \in 1..Len(ROUTES) |-> ROUTES[k].id],
              LAMBDA rid : /\ start_id \in StopIdsOf(ROUTES_BY_ID(rid).stops)
                           /\ dest_id \in StopIdsOf(ROUTES_BY_ID(rid).stops))

\* plan_trip (lines 308-374)
plan_trip(start_stop_id, dest_stop_id, start_lat, start_lon) ==
    LET req == << start_stop_id, dest_stop_id, start_lat, start_lon >> IN
    IF dest_stop_id = ""
    THEN Failure("planTrip", req, 400, "dest_stop_id is required", NoSnapshot)
    ELSE IF dest_stop_id \notin StopIds
    THEN Failure("planTrip", req, 404, "Destination stop not found", NoSnapshot)
    ELSE IF start_stop_id = "" /\ (start_lat = None \/ start_lon = None)
    THEN Failure("planTrip", req, 400, "Provide start_stop_id or start_lat/start_lon", NoSnapshot)
    ELSE IF start_stop_id = "" /\ nearest_stop(start_lat, start_lon).id = ""
    THEN Failure("planTrip", req, 500, "TypeError", NoSnapshot)
    ELSE
    LET near == nearest_stop(start_lat, start_lon)
        resolved == IF start_stop_id = "" THEN near.id ELSE start_stop_id
        snapped == IF start_stop_id = ""
                   THEN [stop_id |-> near.id, distance_m |-> IntOf(near.d, Scale)]
                   ELSE [stop_id |-> "", distance_m |-> None]
    IN
    IF resolved \notin StopIds
    THEN Failure("planTrip", req, 404, "Start stop not found", NoSnapshot)
    ELSE IF candidate_routes(resolved, dest_stop_id) = << >>
    THEN Failure("planTrip", req, 400, "No single route connects start and destination", NoSnapshot)
    ELSE
    LET route_id == candidate_routes(resolved, dest_stop_id)[1]
        travel == route_path_distance_and_stops(route_id, resolved, dest_stop_id)
        travel_eta_s == eta_seconds(travel.total, 22)
        bus_id == BusIdOf(route_id)
    IN
    IF travel_eta_s = OverflowError
    THEN Failure("planTrip", req, 500, "OverflowError", NoSnapshot)
    ELSE IF bus_id \notin DOMAIN BUSES
    THEN Failure("planTrip", req, 404, "No bus available for route", NoSnapshot)
    ELSE
    LET bus == BUSES[bus_id]
        bus_to_start_m == route_distance_remaining_m(bus.route_id, bus.lat, bus.lon,
                                                     bus.segment_index, resolved)
        bus_to_start_eta_s == eta_seconds(bus_to_start_m, bus.speed_kmph)
        total_eta_s == IF bus_to_start_eta_s # None /\ travel_eta_s # None
                       THEN bus_to_start_eta_s + travel_eta_s
                       ELSE None
        fare == simple_fare(travel.total)
    IN
    IF \/ bus_to_start_eta_s = OverflowError
       \/ fare = OverflowError
       \/ IntOf(travel.total, Scale) = OverflowError
       \/ IntOf(bus_to_start_m, Scale) = OverflowError
    THEN Failure("planTrip", req, 500, "OverflowError", Snapshot(bus_id, bus))
    ELSE [ op |-> "planTrip", status |-> 200, detail |-> "",
           req |-> req,
           used |-> Snapshot(bus_id, bus),
           route_id |-> route_id, bus_id |-> bus_id,
           start_stop_id |-> resolved, dest_stop_id |-> dest_stop_id,
           path_stop_ids |-> travel.path,
           travel_dist_m |-> travel.total,
           travel_distance_m |-> IntOf(travel.total, Scale),
           bus_to_start_m |-> bus_to_start_m,
           bus_to_start_distance_m |-> IntOf(bus_to_start_m, Scale),
           bus_to_start_eta_s |-> bus_to_start_eta_s,
           travel_eta_s |-> travel_eta_s,
           total_eta_s |-> total_eta_s,
           fare |-> fare,
           snapped_start |-> snapped ]

\* one iteration of the ws_bus loop (lines 384-409)
ws_bus(bus_id) ==
    IF bus_id \notin DOMAIN BUSES
    THEN Failure("ws", << bus_id >>, 200, "Bus not found", NoSnapshot)
    ELSE
    LET bus == BUSES[bus_id]
        stops == ROUTES_BY_ID(bus.route_id).stops
        n == Len(stops)
    IN
    IF n = 0
    THEN Failure("ws", << bus_id >>, 500, "ZeroDivisionError", Snapshot(bus_id, bus))
    ELSE
    LET target_stop == StopAt(stops, NextIndex(bus.segment_index, n))
        dist_m == route_distance_remaining_m(bus.route_id, bus.lat, bus.lon,
                                             bus.segment_index, target_stop.id)
        eta_s == eta_seconds(dist_m, bus.speed_kmph)
    IN
    IF eta_s = OverflowError \/ IntOf(dist_m, Scale) = OverflowError
    THEN Failure("ws", << bus_id >>, 500, "OverflowError", Snapshot(bus_id, bus))
    ELSE [ op |-> "ws", status |-> 200, detail |-> "bus_update",
           req |-> << bus_id >>,
           used |-> Snapshot(bus_id, bus),
           bus |-> to_dict(bus_id, bus),
           next_stop |-> target_stop.id,
           dist_m |-> dist_m,
           distance_m |-> IntOf(dist_m, Scale),
           eta_seconds |-> eta_s ]

\* Request parameters
UnknownBusId == << "R0", "-bus-1" >>

QueryBusIds == BusIds \cup {UnknownBusId}

QueryStopIds == StopIds \cup {"Z"}

QueryCoords == {<<None, None>>, <<0, 0>>, <<60, 60>>, <<40, 330>>}

ServerUp == shutdownPc = "idle"

\* mutant: the simulator's loop body yields the event loop (an await in it)
QueryMayRunMidTick == ServerUp

\* A handler may start only while the event loop is free and the server is up
QueryMayRun == LoopFree /\ ServerUp

\* mutant: the handler rounds, in place, the coordinates of the bus it read
RespondRoundsBus(r) ==
    /\ QueryMayRun
    /\ resp = NoResp
    /\ resp' = r
    /\ BUSES' = IF r.used = NoSnapshot THEN BUSES
                ELSE [BUSES EXCEPT
                        ![r.used.bus_id].lat = (@ \div 100) * 100,
                        ![r.used.bus_id].lon = (@ \div 100) * 100]
    /\ UNCHANGED <<ROUTES, simPc, simIdx, now, cancelRequested,
                   shutdownPc, tickStart>>

\* The client is sequential: it sends a request once it holds the response
\* to its previous one.
Respond(r) ==
    /\ QueryMayRun
    /\ resp = NoResp
    /\ resp' = r
    /\ UNCHANGED <<ROUTES, BUSES, simPc, simIdx, now, cancelRequested,
                   shutdownPc, tickStart>>

GetBusLocation ==
    \E b \in QueryBusIds \cup {NoBus} : Respond(get_bus_location(b))

GetETA == \E b \in QueryBusIds, s \in QueryStopIds : Respond(get_eta(b, s))

PlanTrip ==
    \/ \E s \in QueryStopIds, d \in QueryStopIds \cup {""} :
           Respond(plan_trip(s, d, None, None))
    \/ \E d \in QueryStopIds, c \in QueryCoords :
           Respond(plan_trip("", d, c[1], c[2]))

WsBus == \E b \in QueryBusIds : Respond(ws_bus(b))

\* The response reaches the client
Deliver ==
    /\ resp # NoResp
    /\ LoopFree
    /\ resp' = NoResp
    /\ UNCHANGED <<ROUTES, BUSES, simPc, simIdx, now, cancelRequested,
                   shutdownPc, tickStart>>

Next ==
    \/ SimWake \/ SimSkip \/ SimAdvance \/ SimLat \/ SimLon \/ SimTs
    \/ SimCross \/ SimSleep
    \/ OnShutdownCancel \/ SimCancelled \/ OnShutdownDone
    \/ GetBusLocation \/ GetETA \/ PlanTrip \/ WsBus \/ Deliver

Spec == Init /\ [][Next]_vars

\* The event loop runs the simulator task whenever it can run: its sleep
\* timer expires, and between awaits nothing else is scheduled.
LiveSpec == Init /\ [][Next]_vars /\ WF_vars(SimStep)

(***************************************************************************)
(* The pure functions called on their own.  A call is drawn at the start:  *)
(* resp holds the pending call with its arguments, and the step that       *)
(* applies the function replaces it by the call with its result.           *)
(***************************************************************************)
\* distances in 1/Scale m: around 0, around one and two seconds of travel at
\* 20 and 22 km/h, and negative ones (no result is -1 or -2, the values
\* that stand for None and OverflowError)
EtaDistances == {-2700, -1, 0, 1, 99, 100, 101, 109, 110, 111, 199, 220, 5500}

EtaSpeedsKmph == {-5, 0, 1, 20, 22}

\* 0 m, below, at and above 1 km and 2 km, and a fraction of a metre past
\* 1 km, in 1/Scale m
FareDistances ==
    {0, 1, 500 * Scale, 999 * Scale, 1000 * Scale, 1000 * Scale + 1,
     1001 * Scale, 1999 * Scale, 2000 * Scale, 2001 * Scale, 12345 * Scale}

\* the stops' own coordinates, points as far from one stop as from another,
\* and points near or far from all stops
NearestCoords ==
    {<<0, 0>>, <<100, 120>>, <<200, 120>>, <<50, 50>>, <<10, 10>>,
     <<0, 330>>, <<90, 330>>, <<5, 5>>, <<45, 330>>, <<60, 60>>, <<300, 300>>}

PendingCall(op, req) ==
    [op |-> op, status |-> 0, detail |-> "", req |-> req, used |-> NoSnapshot]

Returned(call, result) ==
    [op |-> call.op, status |-> 200, detail |-> "", req |-> call.req,
     used |-> NoSnapshot, result |-> result]

PureCalls ==
    {PendingCall("eta_seconds", <<d, k>>) : d \in EtaDistances, k \in EtaSpeedsKmph}
      \cup {PendingCall("simple_fare", <<d>>) : d \in FareDistances}
      \cup {PendingCall("nearest_stop", c) : c \in NearestCoords}

PureInit ==
    /\ ROUTES \in Datasets
    /\ \E sp \in SpeedsKmph :
         BUSES = [b \in BusIds |->
                    LET k == CHOOSE k \in 1..Len(ROUTES) : BusIdOf(ROUTES[k].id) = b
                    IN BusState(ROUTES[k], sp, 0)]
    /\ simPc = "sleep"
    /\ simIdx = 1
    /\ now = 0
    /\ cancelRequested = FALSE
    /\ shutdownPc = "idle"
    /\ resp \in PureCalls
    /\ tickStart = BUSES

Return(op, result) ==
    /\ resp.op = op
    /\ resp.status = 0
    /\ resp' = Returned(resp, result)
    /\ UNCHANGED <<ROUTES, BUSES, simPc, simIdx, now, cancelRequested,
                   shutdownPc, tickStart>>

CallEtaSeconds == Return("eta_seconds", eta_seconds(resp.req[1], resp.req[2]))

CallSimpleFare == Return("simple_fare", simple_fare(resp.req[1]))

CallNearestStop == Return("nearest_stop", nearest_stop(resp.req[1], resp.req[2]))

PureNext == CallEtaSeconds \/ CallSimpleFare \/ CallNearestStop

PureSpec == PureInit /\ [][PureNext]_vars

(***************************************************************************)
(* Claims about the simulator tick.  A tick is complete when the simulator *)
(* is back at its await; tickStart is then the state the tick started in.  *)
(***************************************************************************)
TickDone == LoopFree /\ now > 0

Tracked(b) == ~Degenerate(StopsOf(BUSES[b]))

\* progress_m + speed_mps * dt and the segment length, as the tick began
AdvancedProgress(b) == tickStart[b].progress_m + Move(tickStart[b])

StartSegLen(b) == SegLen(StopsOf(tickStart[b]), tickStart[b].segment_index)

\* C1: after any sequence of ticks, every vehicle with speed > 0 on a route
\* with n >= 2 stops has 0 <= segment_index < n and 0 <= progress_m <= the
\* length of the segment stop[segment_index] -> stop[(segment_index+1) mod n].
C1_SegmentAndProgressInRange ==
    LoopFree =>
        \A b \in DOMAIN BUSES :
            (Tracked(b) /\ BUSES[b].speed_kmph > 0) =>
                LET bus == BUSES[b]
                    stops == StopsOf(bus)
                IN /\ 0 <= bus.segment_index
                   /\ bus.segment_index < Len(stops)
                   /\ 0 <= bus.progress_m
                   /\ bus.progress_m <= SegLen(stops, bus.segment_index)

\* a moving vehicle is part-way along a segment other than the first
C1_Witness ==
    /\ TickDone
    /\ \E b \in DOMAIN BUSES :
          /\ Tracked(b)
          /\ BUSES[b].speed_kmph > 0
          /\ BUSES[b].segment_index > 0
          /\ BUSES[b].progress_m > 0

\* C2: in every tick of a vehicle on a route with n >= 2 stops, the segment
\* index changes if and only if the advanced progress (old progress_m +
\* speed_mps * dt) is >= the current segment's length, and progress_m is reset
\* to 0 in exactly those ticks; in every other tick segment_index is unchanged
\* and progress_m is exactly the advanced value.
C2_ResetExactlyOnCrossing ==
    TickDone =>
        \A b \in DOMAIN BUSES :
            Tracked(b) =>
                LET old == tickStart[b]
                    new == BUSES[b]
                    crossing == AdvancedProgress(b) >= StartSegLen(b)
                IN /\ (new.segment_index # old.segment_index) <=> crossing
                   /\ crossing => new.progress_m = 0
                   /\ ~crossing => /\ new.segment_index = old.segment_index
                                   /\ new.progress_m = AdvancedProgress(b)
                   /\ new.speed_kmph > 0 => ((new.progress_m = 0) <=> crossing)

\* a tick whose advanced progress equals the segment length exactly
C2_Witness ==
    /\ TickDone
    /\ \E b \in DOMAIN BUSES :
          /\ Tracked(b)
          /\ tickStart[b].progress_m > 0
          /\ AdvancedProgress(b) = StartSegLen(b)
          /\ BUSES[b].segment_index # tickStart[b].segment_index
          /\ BUSES[b].progress_m = 0

\* the coordinate c lies between x and y at the fraction progress / seg_len,
\* to the precision of the fixed-point unit
AtFraction(c, x, y, progress, seg_len) ==
    LET exact == (y - x) * progress
        got == (c - x) * seg_len
    IN 0 <= exact - got /\ exact - got < seg_len

ThreeStopAtFirstSegment(b) ==
    /\ Len(StopsOf(BUSES[b])) = 3
    /\ tickStart[b].segment_index = 0

\* C3: for a vehicle in segment 0 of a 3-stop route [S0,S1,S2], line 106 of a
\* tick advances progress_m by exactly speed_mps * dt and the tick places the
\* coordinate on S0 -> S1 at the fraction progress_m / len(S0,S1); the tick
\* that brings progress_m to len(S0,S1) or beyond ends with segment index 1
\* and progress 0, and no tick below that threshold leaves segment 0.
C3_FirstSegmentOfTriangle ==
    \A b \in DOMAIN BUSES :
        ThreeStopAtFirstSegment(b) =>
            LET stops == StopsOf(BUSES[b])
                S0 == StopAt(stops, 0)
                S1 == StopAt(stops, 1)
                len == SegLen(stops, 0)
                adv == AdvancedProgress(b)
                bus == BUSES[b]
            IN /\ (simPc \in {"lat", "lon", "ts", "cross"} /\ cur = b) =>
                      bus.progress_m = adv
               /\ (simPc = "cross" /\ cur = b /\ adv < len) =>
                      /\ AtFraction(bus.lat, S0.lat, S1.lat, adv, len)
                      /\ AtFraction(bus.lon, S0.lon, S1.lon, adv, len)
               /\ (simPc = "cross" /\ cur = b /\ adv >= len) =>
                      bus.lat = S1.lat /\ bus.lon = S1.lon
               /\ (TickDone /\ adv < len) =>
                      /\ bus.segment_index = 0
                      /\ bus.progress_m = adv
                      /\ AtFraction(bus.lat, S0.lat, S1.lat, adv, len)
                      /\ AtFraction(bus.lon, S0.lon, S1.lon, adv, len)
               /\ (TickDone /\ adv >= len) =>
                      /\ bus.segment_index = 1
                      /\ bus.progress_m = 0

\* the vehicle started at S0 and is one tick along S0 -> S1, short of S1
C3_Witness ==
    /\ TickDone
    /\ \E b \in DOMAIN BUSES :
          /\ ThreeStopAtFirstSegment(b)
          /\ tickStart[b].progress_m = 0
          /\ tickStart[b].lat = StopAt(StopsOf(BUSES[b]), 0).lat
          /\ tickStart[b].lon = StopAt(StopsOf(BUSES[b]), 0).lon
          /\ BUSES[b].segment_index = 0
          /\ BUSES[b].progress_m = Move(BUSES[b])
          /\ BUSES[b].progress_m > 0
          /\ BUSES[b].lat # tickStart[b].lat

\* C4: in a single tick a vehicle's segment_index stays i or becomes exactly
\* (i+1) mod n, never further, whatever the speed or the segment lengths, and
\* after a crossing progress_m is exactly 0, not the overshoot.
C4_NoOverflowCarry ==
    TickDone =>
        \A b \in DOMAIN BUSES :
            Tracked(b) =>
                LET old == tickStart[b]
                    new == BUSES[b]
                    n == Len(StopsOf(new))
                IN /\ \/ new.segment_index = old.segment_index
                      \/ new.segment_index = (old.segment_index + 1) % n
                   /\ new.segment_index # old.segment_index => new.progress_m = 0

\* a tick that overshoots its segment by more than the whole next segment
C4_Witness ==
    /\ TickDone
    /\ \E b \in DOMAIN BUSES :
          /\ Tracked(b)
          /\ BUSES[b].segment_index # tickStart[b].segment_index
          /\ AdvancedProgress(b) - StartSegLen(b)
               > SegLen(StopsOf(BUSES[b]), BUSES[b].segment_index)
          /\ BUSES[b].progress_m = 0

\* C6: a tick never fails, leaves a vehicle whose route has fewer than 2 stops
\* entirely unchanged, and still updates the other vehicles in the same tick.
C6_DegenerateRouteSkipped ==
    /\ ~LoopFree => ENABLED SimStep
    /\ TickDone =>
          \A b \in DOMAIN BUSES :
              /\ Len(StopsOf(BUSES[b])) < 2 => BUSES[b] = tickStart[b]
              /\ Len(StopsOf(BUSES[b])) >= 2 => BUSES[b].last_update_ts = now

\* a tick moved one vehicle and skipped a one-stop and a zero-stop vehicle
C6_Witness ==
    /\ TickDone
    /\ \E b \in DOMAIN BUSES : Len(StopsOf(BUSES[b])) = 1 /\ BUSES[b] = tickStart[b]
    /\ \E b \in DOMAIN BUSES : Len(StopsOf(BUSES[b])) = 0 /\ BUSES[b] = tickStart[b]
    /\ \E b \in DOMAIN BUSES :
          /\ Tracked(b)
          /\ BUSES[b].lat # tickStart[b].lat
          /\ BUSES[b].last_update_ts > tickStart[b].last_update_ts

(***************************************************************************)
(* Circular traversal                                                      *)
(***************************************************************************)
AllRouteIds == UNION {{d[k].id : k \in 1..Len(d)} : d \in Datasets}

AllSegmentIndices ==
    UNION {UNION {0..(Len(d[k].stops) - 1) : k \in 1..Len(d)} : d \in Datasets}

\* the vehicle of route rid, if it moves and its route has segment k, is in it
InSegment(rid, k) ==
    (/\ rid \in RouteIds
     /\ Tracked(BusIdOf(rid))
     /\ BUSES[BusIdOf(rid)].speed_kmph > 0
     /\ k < Len(ROUTES_BY_ID(rid).stops))
        => BUSES[BusIdOf(rid)].segment_index = k

StepsToNextSegment ==
    \A b \in DOMAIN BUSES :
        (Tracked(b) /\ BUSES'[b].segment_index # BUSES[b].segment_index) =>
            LET n == Len(StopsOf(BUSES[b]))
                i == BUSES[b].segment_index
            IN BUSES'[b].segment_index = IF i = n - 1 THEN 0 ELSE i + 1

\* C5: route traversal is circular and never terminates: a vehicle with
\* speed > 0 on a route with n >= 2 stops moves from segment i only to i+1,
\* and from n-1 only to 0, and as long as the simulator is not cancelled it
\* reaches every segment index again and again.
C5_CircularTraversal ==
    /\ [][StepsToNextSegment]_vars
    /\ \A rid \in AllRouteIds, k \in AllSegmentIndices :
           <>cancelRequested \/ []<>InSegment(rid, k)

\* a moving vehicle has just wrapped from its last segment to segment 0
C5_Witness ==
    /\ TickDone
    /\ \E b \in DOMAIN BUSES :
          /\ Tracked(b)
          /\ BUSES[b].speed_kmph > 0
          /\ Len(StopsOf(BUSES[b])) >= 3
          /\ tickStart[b].segment_index = Len(StopsOf(BUSES[b])) - 1
          /\ tickStart[b].progress_m > 0
          /\ BUSES[b].segment_index = 0

(***************************************************************************)
(* Queries and the simulator on one event loop                             *)
(***************************************************************************)
\* lines 89-119 for one bus, at time t
TickBus(bus, t) ==
    IF Degenerate(StopsOf(bus)) THEN bus
    ELSE Crossed(WithTs(WithLon(WithLat(Advanced(bus))), t))

\* The (lat, lon, segment_index) of bus b that some tick left behind: what
\* the tick before the running one wrote, or what the running one will have
\* written when it ends.
WrittenByOneTick(b) ==
    IF LoopFree THEN {Snapshot(b, BUSES[b])}
    ELSE {Snapshot(b, tickStart[b]), Snapshot(b, TickBus(tickStart[b], now))}

\* a response to the lookup of all vehicles
IsBulk(r) == r.op = "getBusLocation" /\ r.status = 200 /\ r.req = << NoBus >>

ReadsConsistentSnapshot ==
    /\ (resp' # resp /\ resp'.used # NoSnapshot) =>
          /\ resp'.used.bus_id \in DOMAIN BUSES
          /\ resp'.used \in WrittenByOneTick(resp'.used.bus_id)
    /\ (resp' # resp /\ IsBulk(resp')) =>
          \A k \in 1..Len(resp'.buses) :
              LET d == resp'.buses[k]
              IN /\ d.bus_id \in DOMAIN BUSES
                 /\ [ bus_id |-> d.bus_id, lat |-> d.lat, lon |-> d.lon,
                      segment_index |-> d.segment_index ]
                        \in WrittenByOneTick(d.bus_id)

\* C7: under every interleaving of the simulator task with query handlers,
\* the (lat, lon, segment_index) a location lookup, getETA, planTrip or
\* live-update iteration uses were all written by the same tick, never a mix
\* of values from before and after a tick's update of that vehicle.
C7_ConsistentSnapshot == [][ReadsConsistentSnapshot]_vars

\* each kind of query has answered about a vehicle that ticks have moved
\* into a later segment and part-way along it
MovedSnapshot(r) ==
    /\ r.used # NoSnapshot
    /\ r.used.segment_index > 0
    /\ BUSES[r.used.bus_id].progress_m > 0
    /\ r.used = Snapshot(r.used.bus_id, BUSES[r.used.bus_id])

C7_Witness == resp.op = "planTrip" /\ resp.status = 200 /\ MovedSnapshot(resp)

(***************************************************************************)
(* Claims about the ETA engine and the path walk                           *)
(***************************************************************************)
\* C8: when the target stop exists but is not on the vehicle's route,
\* remainingDistance yields the infinite-distance sentinel and the ETA query
\* reports the ETA as null instead of failing.
C8_UnreachableTargetIsUndefined ==
    (/\ resp.op = "getETA"
     /\ resp.req[1] \in DOMAIN BUSES
     /\ resp.req[2] \in StopIds
     /\ resp.req[2] \notin StopIdsOf(StopsOf(BUSES[resp.req[1]]))) =>
        LET bus == BUSES[resp.req[1]]
        IN /\ route_distance_remaining_m(bus.route_id, bus.lat, bus.lon,
                                         bus.segment_index, resp.req[2]) = Inf
           /\ resp.status = 200
           /\ resp.eta_seconds = None

\* the sum of the m segments stops[j] -> stops[j+1] -> ... (indices mod n)
RECURSIVE SumForward(_, _, _)
SumForward(stops, j, m) ==
    IF m = 0 THEN 0
    ELSE SegLen(stops, (j + m - 1) % Len(stops)) + SumForward(stops, j, m - 1)

\* the number of segments walked forward from index a to index b
ForwardSteps(a, b, n) == (b - a + n) % n

\* the stop at index t is the first stop of the route with its id
FirstWithItsId(stops, t) == IndexOf(stops, StopAt(stops, t).id) = t

ProbeCoords == {<<60, 60>>, <<40, 330>>}

RemainingDistanceSpec(stops, lat, lon, i, t) ==
    LET n == Len(stops)
        j == (i + 1) % n
        d == haversine_m(lat, lon, StopAt(stops, j).lat, StopAt(stops, j).lon)
    IN IF t = j THEN d ELSE d + SumForward(stops, j, ForwardSteps(j, t, n))

\* C9: for every route with n >= 2 stops and every current segment index i,
\* remainingDistance to the stop at index (i+1) mod n equals exactly the
\* distance from the given coordinate to that stop; for any other target on
\* the route it equals that distance plus the lengths of the segments walked
\* forward (wrapping) from index (i+1) mod n to the target index.
C9_RemainingDistance ==
    /\ \A k \in 1..Len(ROUTES) :
          LET stops == ROUTES[k].stops
              n == Len(stops)
          IN n >= 2 =>
                \A i \in 0..(n - 1), t \in 0..(n - 1), c \in ProbeCoords :
                    FirstWithItsId(stops, t) =>
                        route_distance_remaining_m(ROUTES[k].id, c[1], c[2], i,
                                                   StopAt(stops, t).id)
                            = RemainingDistanceSpec(stops, c[1], c[2], i, t)
    /\ (resp.op \in {"getETA", "ws"} /\ resp.status = 200
          /\ resp.detail # "Bus not found"
          /\ Len(StopsOf(BUSES[resp.used.bus_id])) >= 2) =>
          LET stops == StopsOf(BUSES[resp.used.bus_id])
              target == IF resp.op = "ws" THEN resp.next_stop ELSE resp.req[2]
          IN resp.dist_m = RemainingDistanceSpec(stops, resp.used.lat, resp.used.lon,
                                                 resp.used.segment_index,
                                                 IndexOf(stops, target))

\* getETA answered for a moved vehicle and a target beyond the current
\* segment's end stop: full segments were added to the remaining distance
C9_Witness ==
    /\ resp.op = "getETA"
    /\ resp.status = 200
    /\ MovedSnapshot(resp)
    /\ LET stops == StopsOf(BUSES[resp.used.bus_id])
           j == (resp.used.segment_index + 1) % Len(stops)
           d == haversine_m(resp.used.lat, resp.used.lon,
                            StopAt(stops, j).lat, StopAt(stops, j).lon)
       IN /\ Len(stops) >= 3
          /\ IndexOf(stops, resp.req[2]) # j
          /\ d > 0
          /\ resp.dist_m > d

\* the stop ids at indices a, a+1, ..., b (mod n)
ForwardPath(stops, a, b) ==
    [k \in 1..(ForwardSteps(a, b, Len(stops)) + 1) |->
        StopAt(stops, (a + k - 1) % Len(stops)).id]

\* C10: the trip-planner path walk is forward-only and wraps: for a route
\* with n >= 2 stops and any start index a and destination index b, the path
\* is stop[a], stop[a+1 mod n], ..., stop[b] and the distance is the sum of
\* those forward segments; on a 3-stop route the distance from stop 2 to
\* stop 1 is the total route length minus the length of segment stop1->stop2.
C10_ForwardPathWalk ==
    /\ \A k \in 1..Len(ROUTES) :
          LET stops == ROUTES[k].stops
              n == Len(stops)
              rid == ROUTES[k].id
          IN n >= 2 =>
                /\ \A a \in 0..(n - 1), b \in 0..(n - 1) :
                      (FirstWithItsId(stops, a) /\ FirstWithItsId(stops, b)) =>
                          LET r == route_path_distance_and_stops(
                                       rid, StopAt(stops, a).id, StopAt(stops, b).id)
                          IN /\ r.path = ForwardPath(stops, a, b)
                             /\ r.total = SumForward(stops, a, ForwardSteps(a, b, n))
                /\ n = 3 =>
                      route_path_distance_and_stops(
                          rid, StopAt(stops, 2).id, StopAt(stops, 1).id).total
                        = SumForward(stops, 0, 3) - SegLen(stops, 1)
    /\ (resp.op = "planTrip" /\ resp.status = 200) =>
          LET stops == ROUTES_BY_ID(resp.route_id).stops
              a == IndexOf(stops, resp.start_stop_id)
              b == IndexOf(stops, resp.dest_stop_id)
          IN /\ resp.path_stop_ids = ForwardPath(stops, a, b)
             /\ resp.travel_dist_m = SumForward(stops, a, ForwardSteps(a, b, Len(stops)))

\* planTrip answered for a trip from stop 2 to stop 1 of a 3-stop route:
\* the path wraps through stop 0
C10_Witness ==
    /\ resp.op = "planTrip"
    /\ resp.status = 200
    /\ LET stops == ROUTES_BY_ID(resp.route_id).stops
       IN /\ Len(stops) = 3
          /\ resp.start_stop_id = StopAt(stops, 2).id
          /\ resp.dest_stop_id = StopAt(stops, 1).id
          /\ resp.path_stop_ids =
                << StopAt(stops, 2).id, StopAt(stops, 0).id, StopAt(stops, 1).id >>
          /\ resp.travel_dist_m = SegLen(stops, 2) + SegLen(stops, 0)
          /\ resp.travel_dist_m > 0

\* C11: the trip planner's path distance is the same forward-only,
\* wrap-at-end summation as the ETA engine's: for every route and every pair
\* of stops (start, dest) on it, the path distance start -> dest equals the
\* remaining distance evaluated at the start stop's own coordinate, with the
\* current segment being the one that ends at the start stop, to dest.
C11_PathDistanceIsRemainingDistance ==
    \A k \in 1..Len(ROUTES) :
        LET stops == ROUTES[k].stops
            n == Len(stops)
            rid == ROUTES[k].id
        IN \A a \in 0..(n - 1), b \in 0..(n - 1) :
              (FirstWithItsId(stops, a) /\ FirstWithItsId(stops, b)) =>
                  route_path_distance_and_stops(
                      rid, StopAt(stops, a).id, StopAt(stops, b).id).total
                    = route_distance_remaining_m(
                          rid, StopAt(stops, a).lat, StopAt(stops, a).lon,
                          (a - 1 + n) % n, StopAt(stops, b).id)

\* e is num / den truncated toward zero (den > 0)
IsTruncatedQuotient(e, num, den) ==
    IF num >= 0
    THEN e >= 0 /\ e * den <= num /\ num < (e + 1) * den
    ELSE e <= 0 /\ (-e) * den <= -num /\ -num < (1 - e) * den

\* e is the whole number of seconds it takes to cover distance_m at
\* speed_kmph (km/h = 1000 m per 3600 s)
IsEtaOf(e, distance_m, speed_kmph) ==
    IsTruncatedQuotient(e, distance_m * 3600, speed_kmph * 1000 * Scale)

\* f is 10 plus 2 per started kilometre of distance_m
IsFareOf(f, distance_m) ==
    /\ (f - 10) % 2 = 0
    /\ LET km == (f - 10) \div 2
       IN /\ (km - 1) * 1000 * Scale < distance_m
          /\ distance_m <= km * 1000 * Scale

\* some route holds both stops
OnCommonRoute(start_id, dest_id) ==
    \E k \in 1..Len(ROUTES) :
        {start_id, dest_id} \subseteq StopIdsOf(ROUTES[k].stops)

\* C12: for every start stop and destination stop that lie on a common
\* route (every route has an assigned vehicle), in any reachable vehicle
\* state, planTrip succeeds, and it fails with InvalidArgument only when no
\* single route holds both; the total ETA is non-null and is the ETA of the
\* vehicle's remaining distance to the start stop at the vehicle's speed plus
\* the ETA of the start -> destination path at 22 km/h, and the fare is
\* computed from the start -> destination distance only.
C12_PlanTripOnCommonRoute ==
    (/\ resp.op = "planTrip"
     /\ resp.req[1] \in StopIds
     /\ resp.req[2] \in StopIds) =>
        IF ~OnCommonRoute(resp.req[1], resp.req[2])
        THEN resp.status = 400
        ELSE /\ resp.status = 200
             /\ {resp.req[1], resp.req[2]}
                    \subseteq StopIdsOf(ROUTES_BY_ID(resp.route_id).stops)
             /\ resp.bus_id = BusIdOf(resp.route_id)
             /\ LET stops == ROUTES_BY_ID(resp.route_id).stops
                    a == IndexOf(stops, resp.req[1])
                    b == IndexOf(stops, resp.req[2])
                    path_m == SumForward(stops, a, ForwardSteps(a, b, Len(stops)))
                    to_start_m == RemainingDistanceSpec(
                                      stops, resp.used.lat, resp.used.lon,
                                      resp.used.segment_index, a)
                IN /\ resp.total_eta_s # None
                   /\ resp.total_eta_s = resp.bus_to_start_eta_s + resp.travel_eta_s
                   /\ IsEtaOf(resp.bus_to_start_eta_s, to_start_m,
                              BUSES[resp.bus_id].speed_kmph)
                   /\ IsEtaOf(resp.travel_eta_s, path_m, 22)
                   /\ IsFareOf(resp.fare, path_m)

\* the status planTrip must answer with, by the first test that fails
\* (200: none fails); resolved is the start stop the request resolves to
ExpectedPlanStatus(start_stop_id, dest_stop_id, start_lat, start_lon, resolved) ==
    IF dest_stop_id = "" THEN 400
    ELSE IF dest_stop_id \notin StopIds THEN 404
    ELSE IF start_stop_id = "" /\ (start_lat = None \/ start_lon = None) THEN 400
    ELSE IF resolved \notin StopIds THEN 404
    ELSE IF ~OnCommonRoute(resolved, dest_stop_id) THEN 400
    ELSE IF \A k \in 1..Len(ROUTES) :
                {resolved, dest_stop_id} \subseteq StopIdsOf(ROUTES[k].stops)
                    => BusIdOf(ROUTES[k].id) \notin DOMAIN BUSES
         THEN 404
    ELSE 200

\* the fields of a failure: no part of a result
IsFailureOnly(r) == DOMAIN r = {"op", "status", "detail", "req", "used"}

\* C13: planTrip reports its failures in this order and with these kinds,
\* with no partial result: InvalidArgument (400) when no destination is
\* given; NotFound (404) when the destination id is unknown; InvalidArgument
\* when no start stop id is given and the start latitude or longitude is
\* missing; NotFound when the resolved start stop is unknown;
\* InvalidArgument when no single route holds both stops; NotFound when the
\* chosen route has no assigned vehicle.  Every other plan fully succeeds.
C13_PlanTripFailureOrder ==
    resp.op = "planTrip" =>
        LET resolved == IF resp.req[1] # "" THEN resp.req[1]
                        ELSE IF resp.req[3] = None \/ resp.req[4] = None THEN ""
                        ELSE nearest_stop(resp.req[3], resp.req[4]).id
            expected == ExpectedPlanStatus(resp.req[1], resp.req[2],
                                           resp.req[3], resp.req[4], resolved)
        IN /\ resp.status = expected
           /\ resp.status # 200 => IsFailureOnly(resp)
           /\ resp.status = 200 =>
                 /\ ~IsFailureOnly(resp)
                 /\ resp.start_stop_id = resolved
                 /\ resp.dest_stop_id = resp.req[2]

\* C14: etaSeconds is null exactly when speed_kmph <= 0, and otherwise is
\* distance_m divided by the speed in metres per second (speed_kmph * 1000 /
\* 3600), truncated toward zero to an integer; etaSeconds(0, 20) = 0 and
\* etaSeconds(X, 0) is null for every X > 0.
C14_EtaSeconds ==
    /\ (resp.op = "eta_seconds" /\ resp.status = 200) =>
          /\ resp.result = None <=> resp.req[2] <= 0
          /\ resp.req[2] > 0 => IsEtaOf(resp.result, resp.req[1], resp.req[2])
          /\ resp.req = <<0, 20>> => resp.result = 0
          /\ (resp.req[1] > 0 /\ resp.req[2] = 0) => resp.result = None

\* an ETA that is a proper truncation: at a positive speed, a positive
\* number of whole seconds that cover less than the distance
C14_Witness ==
    /\ resp.op = "eta_seconds"
    /\ resp.status = 200
    /\ resp.req[2] > 0
    /\ resp.result > 0
    /\ resp.result * resp.req[2] * 1000 * Scale < resp.req[1] * 3600

\* C15: simple_fare(d) = 10 + 2 * ceil(d / 1000) for every finite d >= 0
\* (d in metres), and is therefore non-decreasing in d; 999 m costs 12,
\* 1000 m costs 12 and 1001 m costs 14.
C15_SimpleFare ==
    (resp.op = "simple_fare" /\ resp.status = 200) =>
        LET d == resp.req[1] IN
        /\ IsFareOf(resp.result, d)
        /\ \A e \in FareDistances : e <= d => simple_fare(e) <= resp.result
        /\ d = 999 * Scale => resp.result = 12
        /\ d = 1000 * Scale => resp.result = 12
        /\ d = 1001 * Scale => resp.result = 14

\* the fare of a distance a fraction of a metre past a whole kilometre:
\* the started kilometre is charged
C15_Witness ==
    /\ resp.op = "simple_fare"
    /\ resp.status = 200
    /\ resp.req[1] = 1000 * Scale + 1
    /\ resp.result = 14

\* the distance from (lat, lon) to the stop with id sid
DistanceTo(lat, lon, sid) ==
    haversine_m(lat, lon, STOPS_BY_ID(sid).lat, STOPS_BY_ID(sid).lon)

\* the place of stop id sid in the iteration order of the stops
PlaceOf(sid) == CHOOSE k \in 1..Len(STOP_ID_ORDER) : STOP_ID_ORDER[k] = sid

\* the known stops located exactly at (lat, lon)
StopsAt(lat, lon) ==
    {sid \in StopIds : STOPS_BY_ID(sid).lat = lat /\ STOPS_BY_ID(sid).lon = lon}

\* r is a stop of minimal distance from (lat, lon), the first in iteration
\* order among the stops at that distance
IsFirstNearest(r, lat, lon) ==
    /\ r.id \in StopIds
    /\ r.d = DistanceTo(lat, lon, r.id)
    /\ \A sid \in StopIds :
          /\ r.d <= DistanceTo(lat, lon, sid)
          /\ DistanceTo(lat, lon, sid) = r.d => PlaceOf(r.id) <= PlaceOf(sid)

\* C16 as stated: nearest_stop over a non-empty stop set returns a stop of
\* minimal distance, the first-encountered in iteration order among
\* equidistant ones; for a coordinate exactly at a known stop's location,
\* that stop is returned with distance 0.
C16_NearestStopReturnsThatStop ==
    (resp.op = "nearest_stop" /\ resp.status = 200) =>
        /\ IsFirstNearest(resp.result, resp.req[1], resp.req[2])
        /\ \A sid \in StopsAt(resp.req[1], resp.req[2]) :
              resp.result.id = sid /\ resp.result.d = 0

\* C16 amended: nearest_stop over a non-empty stop set returns a stop of
\* minimal distance, the first-encountered in iteration order among
\* equidistant ones; for a coordinate exactly at a known stop's location,
\* the first stop in iteration order that is located there is returned,
\* with distance 0 (the known stop itself when no earlier stop shares its
\* location).
C16_NearestStop ==
    (resp.op = "nearest_stop" /\ resp.status = 200) =>
        LET here == StopsAt(resp.req[1], resp.req[2]) IN
        /\ IsFirstNearest(resp.result, resp.req[1], resp.req[2])
        /\ here # {} =>
              /\ resp.result.d = 0
              /\ resp.result.id \in here
              /\ \A sid \in here : PlaceOf(resp.result.id) <= PlaceOf(sid)

\* the coordinate of two known stops: the earlier one is returned, at
\* distance 0, and not the later one
C16_Witness ==
    /\ resp.op = "nearest_stop"
    /\ resp.status = 200
    /\ resp.result.d = 0
    /\ \E sid \in StopsAt(resp.req[1], resp.req[2]) :
          /\ sid # resp.result.id
          /\ PlaceOf(resp.result.id) < PlaceOf(sid)

\* a step in which a query handler answers
QueryStep == resp' # resp /\ resp' # NoResp

\* a step of the simulator's loop body
TickStep == ~LoopFree \/ simPc' = "for"

\* C17: the simulator tick is the sole writer of vehicle state: every query
\* (location lookup, getETA, planTrip with or without the nearest-stop
\* snap, a live-update iteration), whether it succeeds or fails, leaves
\* every vehicle's record and the route data, from which the lookup tables
\* are derived, unchanged.
C17_QueriesChangeNothing ==
    [][/\ QueryStep => (BUSES' = BUSES /\ ROUTES' = ROUTES)
       /\ BUSES' # BUSES => (TickStep /\ ~QueryStep)
       /\ ROUTES' = ROUTES]_vars

\* a failed query answered after the vehicles moved: every record is still
\* what the last tick wrote
C17_Witness ==
    /\ resp.op \in {"getBusLocation", "getETA", "planTrip", "ws"}
    /\ resp.status \in {400, 404, 500}
    /\ TickDone
    /\ \E b \in DOMAIN BUSES : BUSES[b].progress_m > 0 /\ BUSES[b].lat % 100 # 0
    /\ \A b \in DOMAIN BUSES : BUSES[b] = TickBus(tickStart[b], now)

\* every vehicle's record is what the last tick that started made of it
\* (the initial record when no tick started)
LastTickApplied ==
    \A b \in DOMAIN BUSES :
        BUSES[b] = IF now = 0 THEN tickStart[b] ELSE TickBus(tickStart[b], now)

\* C18: teardown cancels the simulator task and waits for it.  The
\* cancellation never interrupts a tick part-way: the task ends only at its
\* sleep, and when it has ended every vehicle carries the whole update of
\* the last tick that started.  Shutdown does not complete before the task
\* has finished, and once the task has finished or shutdown has completed
\* no step changes any vehicle's state.
C18_TeardownWaitsForTick ==
    /\ [](simPc = "done" => LastTickApplied)
    /\ [](shutdownPc = "complete" => simPc = "done")
    /\ [][(simPc' = "done" /\ simPc # "done") =>
             (simPc = "sleep" /\ cancelRequested)]_vars
    /\ [][(simPc = "done" \/ shutdownPc = "complete") => BUSES' = BUSES]_vars

\* shutdown completed after the vehicles had moved
C18_Witness ==
    /\ shutdownPc = "complete"
    /\ simPc = "done"
    /\ now > 1
    /\ LastTickApplied
    /\ \E b \in DOMAIN BUSES : BUSES[b] # tickStart[b]

\* the last tick took vehicle b across the end of its segment
CrossedInLastTick(b) == TickDone /\ AdvancedProgress(b) >= StartSegLen(b)

\* C19: whenever a vehicle with speed > 0 on a route with n >= 2 stops can
\* be observed (between ticks), its stored coordinate is consistent with
\* (segment_index, progress_m): it is the linear interpolation between
\* stop[segment_index] and stop[(segment_index+1) mod n] at the fraction
\* progress_m / segment length, the start stop when progress_m = 0; in
\* particular right after a crossing tick the coordinate is exactly the
\* coordinate of the new stop[segment_index].
C19_CoordinateMatchesProgress ==
    LoopFree =>
        \A b \in DOMAIN BUSES :
            (Tracked(b) /\ BUSES[b].speed_kmph > 0) =>
                LET bus == BUSES[b]
                    stops == StopsOf(bus)
                    i == bus.segment_index
                    from == StopAt(stops, i)
                    to == StopAt(stops, (i + 1) % Len(stops))
                    len == SegLen(stops, i)
                IN /\ bus.progress_m = 0 =>
                          bus.lat = from.lat /\ bus.lon = from.lon
                   /\ bus.progress_m > 0 =>
                          /\ len > 0
                          /\ AtFraction(bus.lat, from.lat, to.lat, bus.progress_m, len)
                          /\ AtFraction(bus.lon, from.lon, to.lon, bus.progress_m, len)
                   /\ CrossedInLastTick(b) =>
                          /\ i = (tickStart[b].segment_index + 1) % Len(stops)
                          /\ bus.progress_m = 0
                          /\ bus.lat = from.lat /\ bus.lon = from.lon

\* a vehicle whose last tick overshot the end of a segment of positive
\* length: it sits on the stop it crossed to, which is not where it was
C19_Witness ==
    /\ LoopFree
    /\ \E b \in DOMAIN BUSES :
          /\ Tracked(b)
          /\ CrossedInLastTick(b)
          /\ AdvancedProgress(b) > StartSegLen(b)
          /\ StartSegLen(b) > 0
          /\ BUSES[b].lat = StopAt(StopsOf(BUSES[b]), BUSES[b].segment_index).lat
          /\ BUSES[b].lon = StopAt(StopsOf(BUSES[b]), BUSES[b].segment_index).lon
          /\ <<BUSES[b].lat, BUSES[b].lon>> # <<tickStart[b].lat, tickStart[b].lon>>

\* the sum of all n segment lengths of the circular route
RouteLength(stops) == SumForward(stops, 0, Len(stops))

\* C20: for every route with n >= 1 stops, every current segment index i
\* in 0..n-1 and every target stop on the route, the forward walk of
\* remainingDistance ends after adding at most n-1 full segments, and adds
\* n-1 exactly when the target is the current segment's start stop; so a
\* vehicle that has just arrived at stop j (segment_index = j, coordinate =
\* stop j) gets a remaining distance to stop j equal to the full route
\* length, not 0.
C20_WalkAddsAtMostNMinusOne ==
    /\ \A k \in 1..Len(ROUTES) :
          LET stops == ROUTES[k].stops
              n == Len(stops)
              rid == ROUTES[k].id
          IN \A i \in 0..(n - 1), t \in 0..(n - 1) :
                FirstWithItsId(stops, t) =>
                    LET added == WalkSegments(stops, (i + 1) % n, t, 0)
                    IN /\ added <= n - 1
                       /\ added = n - 1 <=> t = i
                       /\ t = i =>
                             route_distance_remaining_m(
                                 rid, StopAt(stops, i).lat, StopAt(stops, i).lon,
                                 i, StopAt(stops, t).id) = RouteLength(stops)
    /\ (resp.op = "getETA" /\ resp.status = 200) =>
          LET stops == StopsOf(BUSES[resp.used.bus_id])
              at == StopAt(stops, resp.used.segment_index)
          IN (/\ IndexOf(stops, resp.req[2]) = resp.used.segment_index
              /\ resp.used.lat = at.lat
              /\ resp.used.lon = at.lon) =>
                  resp.dist_m = RouteLength(stops)

\* getETA for a vehicle whose last tick brought it to stop j > 0 of a route
\* with 3 stops, asked for stop j: the answer is the whole route length
C20_Witness ==
    /\ resp.op = "getETA"
    /\ resp.status = 200
    /\ CrossedInLastTick(resp.used.bus_id)
    /\ resp.used = Snapshot(resp.used.bus_id, BUSES[resp.used.bus_id])
    /\ LET stops == StopsOf(BUSES[resp.used.bus_id])
       IN /\ Len(stops) >= 3
          /\ resp.used.segment_index > 0
          /\ resp.req[2] = StopAt(stops, resp.used.segment_index).id
          /\ resp.used.lat = StopAt(stops, resp.used.segment_index).lat
          /\ resp.used.lon = StopAt(stops, resp.used.segment_index).lon
          /\ resp.dist_m = RouteLength(stops)
          /\ resp.dist_m > 0

====
